---- MODULE Spec2Model ----
(***************************************************************************)
(* Model of the move arbitration of schnapsen_llm_bench: LlmBot.get_move   *)
(* (bot.py), text_to_move and chat_completion (llm.py), the tournament     *)
(* loop (main.py) and BenchEngine.play_game (game.py).                     *)
(*                                                                         *)
(* One LlmBot plays a tournament against a scripted opponent (the default  *)
(* of main: --opponent randbot).  The game rules engine, the completion    *)
(* provider and the two stores are the environment: the legal move set of  *)
(* a position, the content of a completion, the result of the              *)
(* normalisation call and the success of every remote call are chosen      *)
(* nondeterministically from small sets.                                   *)
(***************************************************************************)
EXTENDS Integers, Sequences, FiniteSets, TLC

VARIABLES
    pc,               \* position of the program
    moves_asked,      \* get_move calls of the engine so far
    round,            \* r of play_tournament's for loop
    uuids,            \* number of uuid4() values drawn so far
    model,            \* LlmBot.model
    match_id,         \* LlmBot.match_id (0 is None)
    turn,             \* LlmBot.turn
    self_invalid_moves, \* LlmBot.invalid_moves
    completion_times, \* LlmBot.completion_times
    valid_moves,      \* get_move: valid_moves
    messages,         \* get_move: messages
    invalid_moves,    \* get_move: the local invalid_moves
    content,          \* completion.choices[0].message.content
    llm_move_text,    \* get_move: llm_move_text
    selected_move,    \* get_move: selected_move
    turns_container,  \* the Cosmos container "turns"
    matches_container,\* the Cosmos container "matches"
    matches_stats,    \* the PostgreSQL table matches_stats
    played,           \* the moves get_move returned to the engine in this match
    error,            \* the exception that ended the last call, "none" if none
    outcome,          \* how the arbitration of the current game turn ended
    calls,            \* chat_completion calls made by the current get_move
    entry_invalid,    \* LlmBot.invalid_moves when the current get_move began
    sent,             \* entries of messages in the last request of the current get_move
    failed,           \* candidates of the current get_move that named no legal move
    bad,              \* completions so far that did not name a legal move
    me,               \* which of bots[0], bots[1] is self in the fields above
    opponent,         \* the fields of the other participant of the match
    trick,            \* the bot that led the trick under way, 0 between tricks
    written_by,       \* the ids of the TurnRecords with the bot that wrote each
    runs              \* the deals of the runs of main that are compared, none in one run

vars == <<pc, moves_asked, round, uuids, model, match_id, turn, self_invalid_moves,
          completion_times, valid_moves, messages, invalid_moves, content,
          llm_move_text, selected_move, turns_container, matches_container,
          matches_stats, played, error, outcome, calls, entry_invalid, failed, sent,
          bad, me, opponent, trick, written_by, runs>>

----------------------------------------------------------------------------
(* Bounds of the model *)

\* rounds of play_tournament
MaxRounds == 2
\* game turns the LlmBot is asked to play in one tournament
MaxMoves == 2
\* completions of one run that do not name a legal move
MaxInvalid == 7

(* Program constants *)

\* bot.py:185  if invalid_moves > 5
RetryLimit == 5

----------------------------------------------------------------------------
(* Cards, moves and descriptors *)

Ranks == {"ACE", "TEN", "JACK", "QUEEN", "KING"}
Suits == {"CLUBS", "DIAMONDS", "HEARTS", "SPADES"}
MoveTypes == {"RegularMove", "Marriage", "TrumpExchange"}

Card(r, s) == [rank |-> r, suit |-> s]
RegularMove(c) == [type |-> "RegularMove", cards |-> <<c>>]
Marriage(q, k) == [type |-> "Marriage", cards |-> <<q, k>>]

\* a descriptor as JSON text: the three keys of CardMove, any string as value
CardMove(r, s, t) == [rank |-> r, suit |-> s, type |-> t]

\* selected_move = False
NoMove == [type |-> "False", cards |-> <<>>]
\* message.content of a completion that holds no JSON text (None)
NoText == CardMove("", "", "")

\* the legal move sets perspective.valid_moves() returns in the model
LegalSets ==
    { <<RegularMove(Card("TEN", "HEARTS"))>>,
      <<RegularMove(Card("KING", "SPADES")),
        Marriage(Card("QUEEN", "SPADES"), Card("KING", "SPADES"))>> }

\* a well-formed descriptor that is legal in no position of LegalSets
WrongMove == CardMove("ACE", "SPADES", "RegularMove")
\* a completion naming a rank outside the enumeration
Unparsable == CardMove("NINE", "HEARTS", "RegularMove")
\* the duration of a completion in milliseconds
Latency == 10

----------------------------------------------------------------------------
(* Pure functions of get_move *)

\* bot.py:64-70: one entry per move and per card of the move
RECURSIVE CardsJson(_, _)
CardsJson(cards, type) ==
    IF cards = <<>> THEN <<>>
    ELSE <<CardMove(Head(cards).rank, Head(cards).suit, type)>>
         \o CardsJson(Tail(cards), type)

RECURSIVE valid_moves_json(_)
valid_moves_json(moves) ==
    IF moves = <<>> THEN <<>>
    ELSE CardsJson(Head(moves).cards, Head(moves).type)
         \o valid_moves_json(Tail(moves))

\* a transcript entry: the role and the text (its kind and the moves it names;
\* the scores and hands of the turn text are left out)
Message(role, kind, moves) ==
    [role |-> role, text |-> [kind |-> kind, moves |-> moves]]

SystemMessage == Message("system", "rules", <<>>)
TurnMessage(moves) == Message("user", "turn", valid_moves_json(moves))
AssistantMessage(text) == Message("assistant", "move", <<text>>)
CorrectiveMessage(moves) == Message("user", "corrective", valid_moves_json(moves))

\* CardMove.model_validate_json accepts the text
WellFormed(text) ==
    /\ text.rank \in Ranks
    /\ text.suit \in Suits
    /\ text.type \in MoveTypes

\* Matches with a fault: the move type is not compared
MatchesCardOnly(llm_move, move) ==
    \E i \in 1..Len(move.cards) :
        /\ llm_move.rank = move.cards[i].rank
        /\ llm_move.suit = move.cards[i].suit

\* bot.py:177-179: the descriptor names one of the cards of a move of its type
Matches(llm_move, move) ==
    /\ llm_move.type = move.type
    /\ \E i \in 1..Len(move.cards) :
          /\ llm_move.rank = move.cards[i].rank
          /\ llm_move.suit = move.cards[i].suit

\* bot.py:174-180: the last matching move of valid_moves, or False
RECURSIVE SelectMove(_, _, _)
SelectMove(llm_move, moves, selected) ==
    IF moves = <<>> THEN selected
    ELSE SelectMove(llm_move, Tail(moves),
                    IF Matches(llm_move, Head(moves)) THEN Head(moves) ELSE selected)

\* MoveJson with a fault: the last card of the move is stored, not the first
MoveJsonLastCard(move) ==
    CardMove(move.cards[Len(move.cards)].rank, move.cards[Len(move.cards)].suit,
             move.type)

\* MoveJson with a fault: rank and suit are stored under each other's key
MoveJsonSwapped(move) ==
    CardMove(move.cards[1].suit, move.cards[1].rank, move.type)

\* bot.py:224-228: the descriptor stored for a move
MoveJson(move) ==
    CardMove(move.cards[1].rank, move.cards[1].suit, move.type)

\* bot.py:218 and bot.py:79: the id of the TurnRecord of a turn
ItemId(m, mdl, t) == <<m, mdl, t>>

\* bot.py:217-229
Item(m, mdl, t, inv, prompt, move) ==
    [id |-> ItemId(m, mdl, t), MatchId |-> m, Turn |-> t, InvalidMoves |-> inv,
     Model |-> mdl, Prompt |-> prompt, Move |-> MoveJson(move)]

\* llm.py:111-147: the transcript after chat_completion built its request
\* (the o1 models take no system role: messages[0] is replaced in place)
RequestMessages(msgs, mdl) ==
    IF mdl \in {"o1-mini", "o1-preview"}
    THEN [msgs EXCEPT ![1] = [role |-> "user", text |-> msgs[1].text]]
    ELSE msgs

\* the completions the provider may return for a position
Contents(moves) ==
    {valid_moves_json(moves)[i] : i \in 1..Len(valid_moves_json(moves))}
        \cup {WrongMove, Unparsable}

\* llm.py:88-107: what the normalisation call may return for a content:
\* canonical input unchanged; otherwise no text (a refusal) or a descriptor of
\* the schema
Normalised(c) ==
    IF WellFormed(c) THEN {c} ELSE {NoText, WrongMove}

IsLegal(c, moves) == WellFormed(c) /\ SelectMove(c, moves, NoMove) # NoMove

Range(s) == {s[i] : i \in 1..Len(s)}

----------------------------------------------------------------------------
(* The state after LlmBot.__init__ and before play_tournament's first round *)

InitBot(mdl) ==
    /\ pc = "loop"
    /\ moves_asked = 0
    /\ round = 0
    /\ uuids = 0
    /\ model = mdl
    /\ match_id = 0
    /\ turn = 1
    /\ self_invalid_moves = 0
    /\ completion_times = <<>>
    /\ valid_moves = <<>>
    /\ messages = <<>>
    /\ invalid_moves = 0
    /\ content = NoText
    /\ llm_move_text = NoText
    /\ selected_move = NoMove
    /\ turns_container = {}
    /\ matches_container = {}
    /\ matches_stats = <<>>
    /\ played = <<>>
    /\ error = "none"
    /\ outcome = "none"
    /\ calls = 0
    /\ entry_invalid = 0
    /\ sent = 0
    /\ failed = 0
    /\ bad = 0
    /\ me = 1
    /\ trick = 0
    /\ written_by = {}

\* bot.py:32-38: the session fields of a second LlmBot
LlmBot(mdl) ==
    [model |-> mdl, turn |-> 1, invalid_moves |-> 0, completion_times |-> <<>>]

\* an opponent that is no LlmBot
NoBot == [model |-> "randbot", turn |-> 0, invalid_moves |-> 0, completion_times |-> <<>>]

\* main.py:81-88: bot2 of main
Opponent(name) ==
    IF name \in {"randbot", "rdeepbot", "bullybot"} THEN NoBot ELSE LlmBot(name)

\* one run of main is followed: no deals of runs are compared
NoRuns == <<>>

\* main.py:79, main.py:94-106: the bots of the default --model and --opponent
Init == InitBot("gpt-4o-mini") /\ opponent = Opponent("randbot") /\ runs = NoRuns

\* the bots of --model o1-mini
InitO1 == InitBot("o1-mini") /\ opponent = Opponent("randbot") /\ runs = NoRuns

\* the bots of --opponent gpt-4o-mini and of --opponent gpt-4o
InitLlmOpponent ==
    /\ InitBot("gpt-4o-mini")
    /\ \E name \in {"gpt-4o-mini", "gpt-4o"} : opponent = Opponent(name)
    /\ runs = NoRuns

bot == <<model, match_id, turn, self_invalid_moves, completion_times>>
locals == <<valid_moves, messages, invalid_moves, content, llm_move_text, selected_move>>
stores == <<turns_container, matches_container, matches_stats>>
ghosts == <<outcome, calls, entry_invalid, failed, sent>>
engine == <<me, opponent, trick, written_by>>

\* the game turns one tournament may ask for: MaxMoves of one LlmBot, one
\* more between two LlmBots
MovesOfTheRun == IF opponent = NoBot THEN MaxMoves ELSE MaxMoves + 1

\* the frame of get_move is gone
NoLocals ==
    /\ valid_moves' = <<>>
    /\ messages' = <<>>
    /\ invalid_moves' = 0
    /\ content' = NoText
    /\ llm_move_text' = NoText
    /\ selected_move' = NoMove

\* nothing of the match that is over is left in the engine
NoMatch ==
    /\ played' = <<>>
    /\ error' = "none"
    /\ outcome' = "none"
    /\ calls' = 0
    /\ entry_invalid' = 0
    /\ sent' = 0
    /\ failed' = 0

\* main.py:55-61: an exception leaves get_move, play_game_from_state and
\* play_game, is printed by the except clause of play_tournament, and the
\* loop continues with the next round
Raise(e) ==
    /\ error' = e
    /\ round' = round + 1
    /\ pc' = "loop"

----------------------------------------------------------------------------
(* play_tournament and BenchEngine.play_game *)

\* main.py:49-58, game.py:66-108: a round begins; the match gets a fresh id,
\* every LlmBot is told the id, and the match record is created
\* (no match is played once the MaxMoves game turns of the run are used up)
PlayGame ==
    /\ pc = "loop"
    /\ round < MaxRounds
    /\ moves_asked < MovesOfTheRun
    /\ uuids' = uuids + 1
    /\ match_id' = uuids + 1
    /\ matches_container' = matches_container \cup {uuids + 1}
    /\ pc' = "game"
    /\ NoLocals
    /\ NoMatch
    /\ trick' = 0
    /\ UNCHANGED <<moves_asked, round, model, turn, self_invalid_moves,
                   completion_times, turns_container, matches_stats, bad,
                   me, opponent, written_by>>
    /\ UNCHANGED runs

\* game.py:93: the creation of the match record fails
PlayGameRaise ==
    /\ pc = "loop"
    /\ round < MaxRounds
    /\ uuids' = uuids + 1
    /\ match_id' = uuids + 1
    /\ NoLocals
    /\ played' = <<>>
    /\ outcome' = "none"
    /\ calls' = 0
    /\ entry_invalid' = 0
    /\ sent' = 0
    /\ failed' = 0
    /\ Raise("MatchStoreError")
    /\ trick' = 0
    /\ UNCHANGED <<moves_asked, model, turn, self_invalid_moves,
                   completion_times, stores, bad, me, opponent, written_by>>
    /\ UNCHANGED runs

----------------------------------------------------------------------------
(* LlmBot.get_move *)

PreviousTurn == {it \in turns_container : it.id = ItemId(match_id, model, turn - 1)}

\* RetriesAtEntry with a fault: the retries of the game turn are counted on
\* from the invalid moves of the match
RetriesAtEntryCumulative(cumulative) == cumulative

\* bot.py:140: invalid_moves = 0, whatever self.invalid_moves is
RetriesAtEntry(cumulative) == 0

\* bot.py:52-140: the engine asks for a move; the transcript is the stored one
\* of the previous turn, or a new one, and the turn text is appended
GetMove ==
    /\ pc = "game"
    /\ trick # me
    /\ moves_asked < MovesOfTheRun
    /\ turn > 1 => PreviousTurn # {}
    /\ \E moves \in LegalSets :
         /\ valid_moves' = moves
         /\ messages' =
              Append(IF turn > 1
                     THEN (CHOOSE it \in PreviousTurn : TRUE).Prompt
                     ELSE <<SystemMessage>>,
                     TurnMessage(moves))
    /\ invalid_moves' = RetriesAtEntry(self_invalid_moves)
    /\ selected_move' = NoMove
    /\ content' = NoText
    /\ llm_move_text' = NoText
    /\ outcome' = "none"
    /\ calls' = 0
    /\ entry_invalid' = self_invalid_moves
    /\ sent' = 0
    /\ failed' = 0
    /\ moves_asked' = moves_asked + 1
    /\ pc' = "completion"
    /\ UNCHANGED <<round, uuids, bot, stores, played, error, bad>>
    /\ UNCHANGED engine
    /\ UNCHANGED runs

\* bot.py:77-81: read_item finds no record of the previous turn
GetMoveReadRaise ==
    /\ pc = "game"
    /\ trick # me
    /\ moves_asked < MovesOfTheRun
    /\ turn > 1
    /\ PreviousTurn = {}
    /\ \E moves \in LegalSets : valid_moves' = moves
    /\ moves_asked' = moves_asked + 1
    /\ Raise("NotFound")
    /\ UNCHANGED <<uuids, bot, messages, invalid_moves, content,
                   llm_move_text, selected_move, stores, played, ghosts, bad>>
    /\ UNCHANGED engine
    /\ UNCHANGED runs

\* bot.py:146-155, llm.py:111-198: a completion is returned and timed
ChatCompletion ==
    /\ pc = "completion"
    /\ calls' = calls + 1
    /\ messages' = RequestMessages(messages, model)
    /\ sent' = Len(messages)
    /\ \E c \in Contents(valid_moves) :
         /\ IsLegal(c, valid_moves) \/ bad < MaxInvalid
         /\ content' = c
         /\ bad' = IF IsLegal(c, valid_moves) THEN bad ELSE bad + 1
    /\ completion_times' = Append(completion_times, Latency)
    /\ pc' = "normalize"
    /\ UNCHANGED <<moves_asked, round, uuids, model, match_id, turn, self_invalid_moves,
                   valid_moves, invalid_moves, llm_move_text, selected_move,
                   stores, played, error, outcome, entry_invalid, failed>>
    /\ UNCHANGED engine
    /\ UNCHANGED runs

\* ChatCompletionRaise with a fault: get_move gives the turn up in a finally
\* clause that advances the turn index before the exception leaves
ChatCompletionRaiseAdvances ==
    /\ pc = "completion"
    /\ calls' = calls + 1
    /\ messages' = RequestMessages(messages, model)
    /\ sent' = Len(messages)
    /\ turn' = turn + 1
    /\ Raise("ProviderError")
    /\ UNCHANGED <<moves_asked, uuids, model, match_id, self_invalid_moves,
                   completion_times, valid_moves, invalid_moves, content,
                   llm_move_text, selected_move, stores, played, outcome,
                   entry_invalid, failed, bad>>
    /\ UNCHANGED engine
    /\ UNCHANGED runs

\* bot.py:149: the completion request fails
ChatCompletionRaise ==
    /\ pc = "completion"
    /\ calls' = calls + 1
    /\ messages' = RequestMessages(messages, model)
    /\ sent' = Len(messages)
    /\ Raise("ProviderError")
    /\ UNCHANGED <<moves_asked, uuids, bot, valid_moves, invalid_moves, content,
                   llm_move_text, selected_move, stores, played, outcome,
                   entry_invalid, failed, bad>>
    /\ UNCHANGED engine
    /\ UNCHANGED runs

\* llm.py:89-107: the normalisation call returns
TextToMove ==
    /\ pc = "normalize"
    /\ \E text \in Normalised(content) : llm_move_text' = text
    /\ content' = NoText
    /\ pc' = "validate"
    /\ UNCHANGED <<moves_asked, round, uuids, bot, valid_moves, messages, invalid_moves,
                   selected_move, stores, played, error, ghosts, bad>>
    /\ UNCHANGED engine
    /\ UNCHANGED runs

\* llm.py:90-103: the normalisation call fails and the exception is caught
TextToMoveExcept ==
    /\ pc = "normalize"
    /\ pc' = "normalize_except"
    /\ UNCHANGED <<moves_asked, round, uuids, bot, locals, stores, played, error, ghosts, bad>>
    /\ UNCHANGED engine
    /\ UNCHANGED runs

\* llm.py:104, llm.py:89: the exception is printed; completion is still None
TextToMoveAgain ==
    /\ pc = "normalize_except"
    /\ pc' = "normalize"
    /\ UNCHANGED <<moves_asked, round, uuids, bot, locals, stores, played, error, ghosts, bad>>
    /\ UNCHANGED engine
    /\ UNCHANGED runs

\* bot.py:159: model_validate_json raises a ValidationError
ModelValidateRaise ==
    /\ pc = "validate"
    /\ ~WellFormed(llm_move_text)
    /\ Raise("ValidationError")
    /\ UNCHANGED <<moves_asked, uuids, bot, locals, stores, played, ghosts, bad>>
    /\ UNCHANGED engine
    /\ UNCHANGED runs

\* TooManyInvalid with a fault: >= for >, the fallback comes one attempt early
TooManyInvalidEarly(count) == count >= RetryLimit

\* bot.py:185: the retries of this game turn are used up
TooManyInvalid(count) == count > RetryLimit

\* CountInvalid with a fault: the invalid move is not counted in the session
CountInvalidSkipped(count) == count

\* bot.py:191: self.invalid_moves += 1
CountInvalid(count) == count + 1

\* bot.py:159-180: the move the descriptor selects among valid_moves
Candidate == SelectMove(llm_move_text, valid_moves, NoMove)

\* bot.py:159-181, 212-213: the text is a CardMove, the assistant entry is
\* appended, and the descriptor names a legal move
Resolved ==
    /\ pc = "validate"
    /\ WellFormed(llm_move_text)
    /\ Candidate # NoMove
    /\ messages' = Append(messages, AssistantMessage(llm_move_text))
    /\ selected_move' = Candidate
    /\ outcome' = "RESOLVED"
    /\ pc' = "save"
    /\ UNCHANGED <<moves_asked, round, uuids, bot, valid_moves, invalid_moves,
                   content, llm_move_text, stores, played, error, calls,
                   entry_invalid, sent, failed, bad>>
    /\ UNCHANGED engine
    /\ UNCHANGED runs

\* bot.py:159-181, 184-210: the descriptor names no legal move; the invalid
\* move is counted, the corrective entry is appended and the model is asked again
Retry ==
    /\ pc = "validate"
    /\ WellFormed(llm_move_text)
    /\ Candidate = NoMove
    /\ ~TooManyInvalid(invalid_moves)
    /\ self_invalid_moves' = CountInvalid(self_invalid_moves)
    /\ invalid_moves' = invalid_moves + 1
    /\ failed' = failed + 1
    /\ messages' = Append(Append(messages, AssistantMessage(llm_move_text)),
                          CorrectiveMessage(valid_moves))
    /\ pc' = "completion"
    /\ UNCHANGED <<moves_asked, round, uuids, model, match_id, turn,
                   completion_times, valid_moves, content, llm_move_text,
                   selected_move, stores, played, error, outcome, calls,
                   entry_invalid, sent, bad>>
    /\ UNCHANGED engine
    /\ UNCHANGED runs

\* Fallback with a fault: the corrective entry is appended before the retries
\* are found to be used up
FallbackAfterCorrective ==
    /\ pc = "validate"
    /\ WellFormed(llm_move_text)
    /\ Candidate = NoMove
    /\ TooManyInvalid(invalid_moves)
    /\ messages' = Append(Append(messages, AssistantMessage(llm_move_text)),
                          CorrectiveMessage(valid_moves))
    /\ \E move \in Range(valid_moves) : selected_move' = move
    /\ failed' = failed + 1
    /\ outcome' = "FALLBACK"
    /\ pc' = "save"
    /\ UNCHANGED <<moves_asked, round, uuids, bot, valid_moves, invalid_moves,
                   content, llm_move_text, stores, played, error, calls,
                   entry_invalid, sent, bad>>
    /\ UNCHANGED engine
    /\ UNCHANGED runs

\* bot.py:159-181, 184-188: the descriptor names no legal move and there were
\* too many invalid moves; a random legal move is selected
Fallback ==
    /\ pc = "validate"
    /\ WellFormed(llm_move_text)
    /\ Candidate = NoMove
    /\ TooManyInvalid(invalid_moves)
    /\ messages' = Append(messages, AssistantMessage(llm_move_text))
    /\ \E move \in Range(valid_moves) : selected_move' = move
    /\ failed' = failed + 1
    /\ outcome' = "FALLBACK"
    /\ pc' = "save"
    /\ UNCHANGED <<moves_asked, round, uuids, bot, valid_moves, invalid_moves,
                   content, llm_move_text, stores, played, error, calls,
                   entry_invalid, sent, bad>>
    /\ UNCHANGED engine
    /\ UNCHANGED runs

\* TurnAfterWrite with a fault: the turn advances before the write
TurnAfterWriteAlways(t, committed) == t + 1

\* bot.py:231-232: self.turn after create_item returned or raised
TurnAfterWrite(t, committed) == IF committed THEN t + 1 ELSE t

\* bot.py:217-235: the TurnRecord is created, the turn advances and the move
\* is returned to the engine (which, between two LlmBots, has the leader's
\* move of the trick or both moves)
CreateItem ==
    /\ pc = "save"
    /\ \A it \in turns_container : it.id # ItemId(match_id, model, turn)
    /\ turns_container' = turns_container \cup
          {Item(match_id, model, turn, self_invalid_moves, messages, selected_move)}
    /\ written_by' = written_by \cup {<<ItemId(match_id, model, turn), me>>}
    /\ turn' = TurnAfterWrite(turn, TRUE)
    /\ played' = Append(played, selected_move)
    /\ trick' = IF opponent = NoBot \/ trick # 0 THEN 0 ELSE me
    /\ pc' = "game"
    /\ UNCHANGED <<moves_asked, round, uuids, model, match_id, self_invalid_moves,
                   completion_times, locals, matches_container, matches_stats,
                   error, ghosts, bad, me, opponent>>
    /\ UNCHANGED runs

\* bot.py:231: create_item raises (the store fails, or the id exists)
CreateItemRaise ==
    /\ pc = "save"
    /\ turn' = TurnAfterWrite(turn, FALSE)
    /\ Raise("TurnLedgerError")
    /\ UNCHANGED <<moves_asked, uuids, model, match_id, self_invalid_moves,
                   completion_times, locals, stores, played, ghosts, bad>>
    /\ UNCHANGED engine
    /\ UNCHANGED runs

\* the session fields of self
Self ==
    [model |-> model, turn |-> turn, invalid_moves |-> self_invalid_moves,
     completion_times |-> completion_times]

\* the other LlmBot becomes self
Enter ==
    /\ me' = 3 - me
    /\ model' = opponent.model
    /\ turn' = opponent.turn
    /\ self_invalid_moves' = opponent.invalid_moves
    /\ completion_times' = opponent.completion_times

\* game.py:108, main.py:50-58: between two LlmBots the engine turns to the
\* other bot: to the follower once the leader of the trick has moved, to
\* either bot as the leader of a new trick
Handover ==
    /\ pc = "game"
    /\ opponent # NoBot
    /\ trick \in {0, me}
    /\ Enter
    /\ opponent' = Self
    /\ UNCHANGED <<pc, moves_asked, round, uuids, match_id, locals, stores,
                   played, error, ghosts, bad, trick, written_by>>
    /\ UNCHANGED runs

----------------------------------------------------------------------------
(* LlmBot.notify_game_end *)

RECURSIVE Sum(_)
Sum(s) == IF s = <<>> THEN 0 ELSE Head(s) + Sum(Tail(s))

\* bot.py:283-300: the row of matches_stats
StatsRow ==
    [match_id |-> match_id, model |-> model, turns |-> turn,
     invalid_moves |-> self_invalid_moves,
     avg_completion_time |-> Sum(completion_times) \div Len(completion_times)]

\* bot.py:238-310, game.py:108-115, main.py:63-70: the game is over; the
\* summary is written and the session is reset; then the other LlmBot of the
\* match, if there is one, is notified, and the round ends
NotifyGameEnd ==
    /\ pc \in {"game", "notify"}
    /\ pc = "game" => (Len(played) >= 1 /\ trick = 0)
    /\ match_id \in matches_container
    /\ completion_times # <<>>
    /\ matches_stats' = Append(matches_stats, StatsRow)
    /\ IF pc = "game" /\ opponent # NoBot
       THEN /\ Enter
            /\ opponent' = LlmBot(model)
            /\ pc' = "notify"
            /\ UNCHANGED <<round, locals, played, error, ghosts>>
       ELSE /\ turn' = 1
            /\ self_invalid_moves' = 0
            /\ completion_times' = <<>>
            /\ round' = round + 1
            /\ pc' = "loop"
            /\ NoLocals
            /\ NoMatch
            /\ UNCHANGED <<model, me, opponent>>
    /\ UNCHANGED <<moves_asked, uuids, match_id, turns_container,
                   matches_container, bad, trick, written_by>>
    /\ UNCHANGED runs

\* NotifyGameEndRaise with a fault: the failure of the summary write is caught
\* and dropped, and notify_game_end goes on to reset the session
NotifyGameEndRaiseSwallowed ==
    /\ pc = "game"
    /\ Len(played) >= 1
    /\ turn' = 1
    /\ self_invalid_moves' = 0
    /\ completion_times' = <<>>
    /\ round' = round + 1
    /\ pc' = "loop"
    /\ NoLocals
    /\ NoMatch
    /\ UNCHANGED <<moves_asked, uuids, model, match_id, stores, bad>>
    /\ UNCHANGED engine
    /\ UNCHANGED runs

\* bot.py:250, bot.py:262-302: a store fails while the summary is written
NotifyGameEndRaise ==
    /\ pc \in {"game", "notify"}
    /\ pc = "game" => (Len(played) >= 1 /\ trick = 0)
    /\ Raise("SummaryStoreError")
    /\ UNCHANGED <<moves_asked, uuids, bot, locals, stores, played, ghosts, bad>>
    /\ UNCHANGED engine
    /\ UNCHANGED runs

\* bot.py:256: notify_game_end divides by len(self.completion_times) of a
\* session that recorded no completion
NotifyGameEndDivideByZero ==
    /\ pc = "game"
    /\ match_id \in matches_container
    /\ completion_times = <<>>
    /\ Raise("ZeroDivisionError")
    /\ UNCHANGED <<moves_asked, uuids, bot, locals, stores, played, ghosts, bad,
                   engine>>
    /\ UNCHANGED runs

----------------------------------------------------------------------------

Next ==
    \/ PlayGame
    \/ PlayGameRaise
    \/ GetMove
    \/ GetMoveReadRaise
    \/ ChatCompletion
    \/ ChatCompletionRaise
    \/ TextToMove
    \/ TextToMoveExcept
    \/ TextToMoveAgain
    \/ ModelValidateRaise
    \/ Resolved
    \/ Retry
    \/ Fallback
    \/ CreateItem
    \/ CreateItemRaise
    \/ NotifyGameEnd
    \/ NotifyGameEndRaise

Spec == Init /\ [][Next]_vars

SpecO1 == InitO1 /\ [][Next]_vars

\* the program is sequential: it always takes its next step
FairSpec == Init /\ [][Next]_vars /\ WF_vars(Next)

\* a tournament between two LlmBots
NextLlmOpponent == Next \/ Handover

SpecLlmOpponent == InitLlmOpponent /\ [][NextLlmOpponent]_vars

\* the LlmBot under an engine that may end a game before it asked the bot for
\* a move
NextAnyEngine == Next \/ NotifyGameEndDivideByZero

SpecAnyEngine == Init /\ [][NextAnyEngine]_vars

----------------------------------------------------------------------------
(* The deals of two runs of main.  What a run deals depends on the         *)
(* generator of play_tournament and on the clock alone, so a run is        *)
(* followed by its generator, its clock and its deals; the bots, the       *)
(* stores and the arbitration stand still.                                 *)

\* the --seed values a run is started with (main.py:113-118, 42 by default)
Seeds == {42, 43}

\* the values datetime.now().timestamp() takes are 0..MaxClock
MaxClock == 2

\* the fields of the one run the other specifications follow
one_run == <<pc, moves_asked, round, uuids, bot, locals, stores, played, error,
             ghosts, bad, engine>>

\* play_tournament has not made its generator yet
NoRng == -1

\* main.py:73, main.py:122: a run of main with --seed seed, not yet begun
Run(seed) == [seed |-> seed, rng |-> NoRng, clock |-> 0, deals |-> <<>>]

\* main.py:90: play_tournament(bot1, bot2, rounds=rounds, seed=44), whatever
\* the seed of main is
TournamentSeed(seed) == 44

\* random.Random(x) and rng.seed(x): the state of the generator is a function
\* of x alone
RandomSeed(x) == x

\* the generator after one draw
RandomNext(rng) == (rng * 5 + 3) % 16

\* the draw of a generator below n
RandBelow(rng, n) == rng % n

\* game.py:72: get_initial_deck(), here a deck of four cards
InitialDeck == <<"ACE", "TEN", "KING", "QUEEN">>

\* x[i], x[j] = x[j], x[i]
Swap(x, i, j) ==
    [k \in 1..Len(x) |-> IF k = i THEN x[j] ELSE IF k = j THEN x[i] ELSE x[k]]

\* game.py:73: shuffle_deck(cards, rng) is rng.shuffle: from the last card
\* down to the second, card i changes places with a card drawn from the
\* first i
RECURSIVE Shuffle(_, _, _)
Shuffle(x, i, rng) ==
    IF i < 2 THEN [cards |-> x, rng |-> rng]
    ELSE Shuffle(Swap(x, i, RandBelow(rng, i) + 1), i - 1, RandomNext(rng))

ShuffleDeck(cards, rng) == Shuffle(cards, Len(cards), rng)

\* game.py:74, game.py:82-83: generateHands(shuffled): the first cards are the
\* hand of the leader, the next ones the hand of the follower, the rest is
\* the talon (here hands of one card)
GenerateHands(shuffled, leader) ==
    [leader |-> leader,
     hand1 |-> SubSeq(shuffled, 1, 1),
     hand2 |-> SubSeq(shuffled, 2, 2),
     talon |-> SubSeq(shuffled, 3, Len(shuffled))]

\* the hands and the talon of a deal
Hands(deal) == <<deal.hand1, deal.hand2, deal.talon>>

\* two runs of main, each with a --seed of its own
InitTwoRuns ==
    /\ InitBot("gpt-4o-mini")
    /\ opponent = Opponent("randbot")
    /\ runs \in [{1, 2} -> {Run(seed) : seed \in Seeds}]

\* main.py:73-90, main.py:45: a run begins; main calls play_tournament, which
\* makes its generator from the seed it was given
PlayTournamentOfRun ==
    \E r \in DOMAIN runs :
        /\ runs[r].rng = NoRng
        /\ runs' = [runs EXCEPT ![r].rng = RandomSeed(TournamentSeed(runs[r].seed))]
        /\ UNCHANGED one_run

\* main.py:49-58, game.py:66-74: a round of a run: the leader is drawn from
\* the generator of the random module, play_game seeds the generator of the
\* tournament with the time of the clock, shuffles the deck with it and deals
PlayGameOfRun ==
    \E r \in DOMAIN runs, now \in 0..MaxClock, leader \in {1, 2} :
        /\ runs[r].rng # NoRng
        /\ Len(runs[r].deals) < MaxRounds
        /\ now >= runs[r].clock
        /\ LET shuffled == ShuffleDeck(InitialDeck, RandomSeed(now))
           IN  runs' = [runs EXCEPT
                           ![r].clock = now,
                           ![r].rng = shuffled.rng,
                           ![r].deals = Append(@, GenerateHands(shuffled.cards, leader))]
        /\ UNCHANGED one_run

NextTwoRuns ==
    \/ PlayTournamentOfRun
    \/ PlayGameOfRun

SpecTwoRuns == InitTwoRuns /\ [][NextTwoRuns]_vars

----------------------------------------------------------------------------
(* Properties *)

\* the descriptors (rank, suit, kind) of the members of a legal move set
LegalDescriptors(moves) == Range(valid_moves_json(moves))

\* the descriptor d has the kind of the move and names one of its cards
Describes(d, move) == d \in Range(CardsJson(move.cards, move.type))

\* a get_move call is under way
InTurn == pc \in {"completion", "normalize", "normalize_except", "validate", "save"}

\* C1: in a game turn in which more than 6 consecutive completions fail
\* validation, get_move makes exactly 7 chat_completion calls and none after
\* them, takes the fallback, returns a member of the legal move set, and has
\* increased invalid_moves by exactly 6.
C1_FallbackAtSeventhAttempt ==
    /\ calls <= 7
    /\ failed <= 7
    /\ failed > 6 =>
          /\ outcome = "FALLBACK"
          /\ calls = 7
          /\ self_invalid_moves = entry_invalid + 6
          /\ selected_move \in Range(valid_moves)
          /\ pc \in {"save", "game", "loop"}
          /\ pc = "game" => played # <<>> /\ played[Len(played)] = selected_move
    /\ outcome = "FALLBACK" => failed > 6

C1_Witness ==
    /\ pc = "game"
    /\ outcome = "FALLBACK"
    /\ failed = 7
    /\ calls = 7
    /\ played # <<>>

\* C2: when the first N <= 6 completions of a game turn fail validation and
\* completion N+1 names a legal move, get_move resolves after exactly N+1
\* chat_completion calls, returns the legal move the descriptor names (no
\* fallback), and has increased invalid_moves by exactly N.
C2_ResolvedAfterRetries ==
    /\ outcome = "RESOLVED" =>
          /\ failed <= 6
          /\ calls = failed + 1
          /\ self_invalid_moves = entry_invalid + failed
          /\ selected_move \in Range(valid_moves)
          /\ Describes(llm_move_text, selected_move)
          /\ pc \in {"save", "game", "loop"}
          /\ pc = "game" => played # <<>> /\ played[Len(played)] = selected_move
    /\ (pc \in {"save", "game", "loop"}
          /\ llm_move_text \in LegalDescriptors(valid_moves))
       => outcome = "RESOLVED"

C2_Witness ==
    /\ pc = "game"
    /\ outcome = "RESOLVED"
    /\ failed = 6
    /\ calls = 7
    /\ self_invalid_moves = entry_invalid + 6
    /\ played # <<>>

\* C3: when the first completion of a game turn parses to a descriptor that
\* matches a member of the legal move set by (rank, suit, kind), get_move
\* resolves at once: one chat_completion call, a legal move the descriptor
\* names, no corrective message, invalid_moves unchanged.
C3_FirstAttemptResolves ==
    [][ (pc = "validate" /\ calls = 1
            /\ llm_move_text \in LegalDescriptors(valid_moves))
        => /\ pc' = "save"
           /\ outcome' = "RESOLVED"
           /\ calls' = 1
           /\ selected_move' \in Range(valid_moves)
           /\ Describes(llm_move_text, selected_move')
           /\ messages' = Append(messages, AssistantMessage(llm_move_text))
           /\ self_invalid_moves' = entry_invalid ]_vars

C3_Witness ==
    /\ pc = "game"
    /\ outcome = "RESOLVED"
    /\ calls = 1
    /\ failed = 0
    /\ played # <<>>
    /\ self_invalid_moves = entry_invalid

\* C4: every game turn terminates: whatever the provider calls of the turn
\* do, get_move returns a move or raises.
C4_TurnTerminates == InTurn ~> ~InTurn

\* C5: a completion that cannot be decoded into a well-formed descriptor is
\* not fatal: it is counted and retried like a validation mismatch, and
\* get_move does not raise.
C5_ParseFailureIsNotFatal == error # "ValidationError"

\* the entry of a stored transcript that opens its last game turn
LastTurnMessage(prompt) ==
    prompt[CHOOSE i \in 1..Len(prompt) :
              /\ prompt[i].text.kind = "turn"
              /\ \A j \in (i + 1)..Len(prompt) : prompt[j].text.kind # "turn"]

\* C6: every committed TurnRecord holds a move whose (rank, suit, kind) is
\* that of a member of the legal move set of its turn, for model and fallback
\* moves alike, and a TurnRecord exists only for a turn whose arbitration
\* ended in RESOLVED or FALLBACK.
C6_RecordsAreLegal ==
    /\ \A it \in turns_container :
          it.Move \in Range(LastTurnMessage(it.Prompt).text.moves)
    /\ InTurn => \A it \in turns_container : it.id # ItemId(match_id, model, turn)
    /\ (pc = "game" \/ InTurn) =>
          Cardinality({it \in turns_container : it.MatchId = match_id}) = Len(played)
    /\ (pc = "game" /\ played # <<>>) =>
          /\ outcome \in {"RESOLVED", "FALLBACK"}
          /\ \E it \in turns_container :
                /\ it.id = ItemId(match_id, model, turn - 1)
                /\ Describes(it.Move, played[Len(played)])
                /\ played[Len(played)] \in Range(valid_moves)

C6_Witness ==
    /\ pc = "game"
    /\ outcome = "FALLBACK"
    /\ \E it \in turns_container :
          /\ it.id = ItemId(match_id, model, turn - 1)
          /\ it.Move \in LegalDescriptors(valid_moves)
          /\ it.Move.type = "Marriage"

\* C7: turn_index starts at 1 in each match and grows by exactly 1 per
\* get_move call that returns a move, and by nothing else; the turn indices of
\* the TurnRecords of one (match, model) are 1, 2, ..., n without gaps.
C7_TurnIndexFromOne ==
    /\ (pc = "game" \/ InTurn) => turn = Len(played) + 1
    /\ \A it \in turns_container : \A t \in 1..it.Turn :
          \E other \in turns_container :
              /\ other.MatchId = it.MatchId
              /\ other.Model = it.Model
              /\ other.Turn = t

\* the entries of a kind in a stored transcript
Count(prompt, kind) ==
    Cardinality({i \in 1..Len(prompt) : prompt[i].text.kind = kind})

\* C8: within a match invalid_moves only grows, by 1 for each candidate that
\* fails validation; the InvalidMoves of the TurnRecords of a match do not
\* decrease with the turn and count only the failed candidates of that match
\* (each of which left a corrective entry in the transcript of the match).
C8_InvalidMovesOfTheMatch ==
    /\ \A it \in turns_container :
          it.InvalidMoves = Count(it.Prompt, "corrective")
    /\ \A a, b \in turns_container :
          (a.MatchId = b.MatchId /\ a.Model = b.Model /\ a.Turn <= b.Turn)
              => a.InvalidMoves <= b.InvalidMoves

\* C9: a write of a TurnRecord that failed is retried and commits, leaving
\* exactly one record under the key (match_id, model_id, turn_index).
C9_FailedWriteIsRetried ==
    error = "TurnLedgerError" =>
        Cardinality({it \in turns_container :
                        it.id = ItemId(match_id, model, turn)}) = 1

\* C10: when the write of the TurnRecord fails, turn_index is not advanced,
\* no move is returned for the turn and no record of the turn exists.
C10_FailedWriteKeepsTurn ==
    [][ (pc = "save" /\ error' = "TurnLedgerError")
        => /\ turn' = turn
           /\ played' = played
           /\ turns_container' = turns_container
           /\ \A it \in turns_container' : it.id # ItemId(match_id, model, turn') ]_vars

C10_Witness ==
    /\ error = "TurnLedgerError"
    /\ pc = "loop"
    /\ turn = 2
    /\ Len(played) = 1
    /\ selected_move \in Range(valid_moves)

\* C11: when chat_completion raises during a game turn, get_move surfaces the
\* error to its caller with turn_index unchanged, no move returned and no
\* TurnRecord written for the turn.
C11_ProviderFailureKeepsTurn ==
    [][ (pc = "completion" /\ error' = "ProviderError")
        => /\ pc' = "loop"
           /\ turn' = turn
           /\ played' = played
           /\ turns_container' = turns_container
           /\ \A it \in turns_container' : it.id # ItemId(match_id', model', turn') ]_vars

C11_Witness ==
    /\ error = "ProviderError"
    /\ pc = "loop"
    /\ turn = 2
    /\ Len(played) = 1
    /\ calls >= 1
    /\ \A it \in turns_container : it.id # ItemId(match_id, model, 2)

\* C12: a provider-side failure of any provider call of a game turn is never
\* a retry cause: once the normalisation request of text_to_move has failed,
\* no further provider request is issued for the turn and the failure reaches
\* the caller of get_move.
C12_ProviderFailureIsNotRetried ==
    [][ pc = "normalize_except"
        => /\ pc' = "loop"
           /\ error' = "ProviderError"
           /\ self_invalid_moves' = self_invalid_moves ]_vars

\* s is t or the beginning of t
IsPrefix(s, t) == Len(s) <= Len(t) /\ SubSeq(t, 1, Len(s)) = s

\* C13: the transcript of a Turn Session is append-only for every supported
\* model identifier: while a get_move call is under way every transcript has
\* every earlier one as a prefix, so no entry's role or text is rewritten or
\* removed.
C13_TranscriptAppendOnly ==
    [][ (InTurn /\ InTurn') => IsPrefix(messages, messages') ]_vars

\* C14: the first transcript sent to the provider in game turn k > 1 is the
\* Prompt of the TurnRecord of turn k-1 of the same (match, model) followed by
\* one new user message; in turn 1 it is one system message followed by one
\* user message.
C14_FirstTranscriptOfATurn ==
    (pc = "normalize" /\ calls = 1) =>
        IF turn > 1
        THEN \E it \in turns_container :
                /\ it.MatchId = match_id /\ it.Model = model /\ it.Turn = turn - 1
                /\ Len(messages) = Len(it.Prompt) + 1
                /\ IsPrefix(it.Prompt, messages)
                /\ messages[Len(messages)].role = "user"
                /\ messages[Len(messages)].text.kind = "turn"
        ELSE /\ Len(messages) = 2
             /\ messages[1].role = "system"
             /\ messages[2].role = "user"
             /\ messages[2].text.kind = "turn"

\* C15: no session state is shared between matches: when the first get_move
\* of a match is called, turn_index is 1, invalid_move_count is 0 and
\* completion_latencies is empty, whether the earlier matches completed or
\* were aborted by an exception.
C15_FreshSessionPerMatch ==
    (pc = "game" /\ played = <<>>) =>
        /\ turn = 1
        /\ self_invalid_moves = 0
        /\ completion_times = <<>>

\* the failures of the remote calls of a match
RemoteFailures ==
    {"MatchStoreError", "ProviderError", "ValidationError", "TurnLedgerError",
     "SummaryStoreError"}

\* C16: play_tournament isolates a failed match: after a match raised, the
\* loop goes on to the next round, and a later match fails only when one of
\* its own provider or store calls fails.
C16_FailedMatchIsIsolated ==
    /\ error \in RemoteFailures \cup {"none"}
    /\ (pc = "loop" /\ error # "none") => round >= 1

\* the rows of a match and a model in a table of summaries
RowsIn(stats, m, mdl) ==
    {i \in 1..Len(stats) : stats[i].match_id = m /\ stats[i].model = mdl}

RowsOf(m, mdl) == RowsIn(matches_stats, m, mdl)

\* the TurnRecords of a match and a model
RecordsOf(m, mdl) ==
    {it \in turns_container : it.MatchId = m /\ it.Model = mdl}

\* C18: the turns value of the match summary is the number of game turns the
\* model played in the match, i.e. the number of TurnRecords committed for
\* the (match, model).
C18_TurnsIsTurnsPlayed ==
    \A i \in 1..Len(matches_stats) :
        matches_stats[i].turns =
            Cardinality(RecordsOf(matches_stats[i].match_id, matches_stats[i].model))

\* C20: exactly one summary row is committed for the (match, model) of every
\* LlmBot of a match that ends, only at match end and only when the match
\* record exists; a failure of the summary write reaches the caller, commits
\* nothing and is not retried.
C20_OneSummaryPerMatch ==
    [][ /\ matches_stats' # matches_stats =>
              /\ pc \in {"game", "notify"} /\ played # <<>>
              /\ match_id \in matches_container
              /\ RowsOf(match_id, model) = {}
              /\ Len(matches_stats') = Len(matches_stats) + 1
              /\ SubSeq(matches_stats', 1, Len(matches_stats)) = matches_stats
              /\ matches_stats'[Len(matches_stats')].match_id = match_id
              /\ matches_stats'[Len(matches_stats')].model = model
              /\ pc' \in {"loop", "notify"} /\ error' = "none"
        /\ (pc \in {"game", "notify"} /\ pc' \in {"loop", "notify"} /\ pc' # pc
                /\ error' = "none") =>
              Cardinality(RowsIn(matches_stats', match_id, model)) = 1
        /\ (pc \in {"game", "notify"} /\ error' = "SummaryStoreError") =>
              /\ pc' = "loop"
              /\ matches_stats' = matches_stats
              /\ RowsOf(match_id, model) = {}
        /\ \A m \in 1..uuids' : \A mdl \in {model, opponent.model} :
              Cardinality(RowsIn(matches_stats', m, mdl)) <= 1 ]_vars

C20_Witness ==
    /\ pc = "loop"
    /\ error = "SummaryStoreError"
    /\ Len(matches_stats) = 1
    /\ matches_stats[1].match_id = 1
    /\ match_id = 2
    /\ RowsOf(2, model) = {}

\* C17: the id of a TurnRecord is a unique key of its Turn Session: no bot
\* writes a TurnRecord under an id another bot of the match, or a session of
\* another match, has written under, and no bot reads the record of another
\* session.
C17_RecordIdIsUniquePerSession ==
    /\ pc = "save" =>
          \A w \in written_by : w[1] # ItemId(match_id, model, turn)
    /\ (InTurn /\ turn > 1) =>
          \A w \in written_by : w[1] = ItemId(match_id, model, turn - 1) => w[2] = me
    /\ \A v, w \in written_by : v[1] = w[1] => v[2] = w[2]

\* C19: notify_game_end of a session with no recorded completion treats the
\* average latency as undefined, commits the summary and resets the session;
\* it does not fail on the empty list.
C19_EmptyLatenciesAreNotFatal ==
    /\ error # "ZeroDivisionError"
    /\ (pc = "loop" /\ error = "none" /\ match_id # 0) =>
          /\ RowsOf(match_id, model) # {}
          /\ turn = 1 /\ self_invalid_moves = 0 /\ completion_times = <<>>

\* C21: the TurnRecord of a turn whose move came from the fallback path
\* carries a recorded outcome that tells it from the record of a turn the
\* model resolved with a legal move of its own.
C21_FallbackIsRecorded ==
    (pc = "game" /\ played # <<>> /\ outcome = "FALLBACK") =>
        \E it \in turns_container :
            /\ it.id = ItemId(match_id, model, turn - 1)
            /\ "Outcome" \in DOMAIN it
            /\ it["Outcome"] = "FALLBACK"

\* C22: every candidate that fails validation increments invalid_move_count
\* before the retry ceiling is evaluated: when the fallback is taken the
\* count has grown by one for each failed candidate of the game turn, the
\* one that led to the fallback included.
C22_FallbackCountsEveryFailure ==
    outcome = "FALLBACK" => self_invalid_moves = entry_invalid + failed

\* C23: the retry ceiling applies per game turn: the retry count of a
\* get_move call starts at 0 whatever invalid_move_count is, every failed
\* candidate up to the sixth of the turn is answered by a corrective retry,
\* and the fallback is taken at the seventh only.
C23_CeilingPerGameTurn ==
    [][ /\ (pc = "game" /\ pc' = "completion") => invalid_moves' = 0
        /\ (pc = "validate" /\ WellFormed(llm_move_text)
               /\ llm_move_text \notin LegalDescriptors(valid_moves)
               /\ failed < 6)
           => /\ pc' = "completion"
              /\ failed' = failed + 1
              /\ invalid_moves' = failed'
              /\ messages'[Len(messages')] = CorrectiveMessage(valid_moves)
              /\ outcome' = "none"
        /\ outcome' = "FALLBACK" => failed' = 7 ]_vars

C23_Witness ==
    /\ pc = "game"
    /\ turn = 3
    /\ entry_invalid >= 6
    /\ failed = 1
    /\ calls = 2
    /\ outcome = "RESOLVED"

\* the TurnRecord of the game turn that was played last
LastRecord == {it \in turns_container : it.id = ItemId(match_id, model, turn - 1)}

\* the corrective entries of a transcript that no request of the turn held
Unsent(prompt) ==
    {i \in (sent + 1)..Len(prompt) : prompt[i].text.kind = "corrective"}

\* C24 as claimed: on the fallback path the persisted transcript holds a
\* corrective user message that was appended but never sent to the provider.
C24_CorrectiveNeverSent ==
    (pc = "game" /\ played # <<>> /\ outcome = "FALLBACK") =>
        \E it \in LastRecord : Unsent(it.Prompt) # {}

\* C24: on the fallback path every corrective user message of the persisted
\* transcript was sent to the provider: the transcript is that of the last
\* request of the turn followed by the assistant entry of the candidate that
\* failed last.
C24_CorrectivesWereSent ==
    (pc = "game" /\ played # <<>> /\ outcome = "FALLBACK") =>
        /\ LastRecord # {}
        /\ \A it \in LastRecord :
              /\ Unsent(it.Prompt) = {}
              /\ Len(it.Prompt) = sent + 1
              /\ it.Prompt[Len(it.Prompt)] = AssistantMessage(llm_move_text)
              /\ it.Prompt[sent] = CorrectiveMessage(valid_moves)

C24_Witness ==
    /\ pc = "game"
    /\ outcome = "FALLBACK"
    /\ played # <<>>
    /\ sent = 14
    /\ \E it \in LastRecord : Len(it.Prompt) = 15

\* one system entry, then user and assistant entries in turn, a user entry first
Alternates(prompt) ==
    /\ prompt # <<>>
    /\ prompt[1].role = "system"
    /\ \A i \in 2..Len(prompt) :
          prompt[i].role = IF i % 2 = 0 THEN "user" ELSE "assistant"

\* C25: the transcript of a session is one SYSTEM entry followed by entries
\* that alternate USER, ASSISTANT; every transcript sent to the provider
\* ends with a USER entry and every transcript persisted in a TurnRecord
\* ends with an ASSISTANT entry.
C25_TranscriptAlternates ==
    /\ InTurn => Alternates(messages)
    /\ pc \in {"normalize", "normalize_except"} =>
          messages[Len(messages)].role = "user"
    /\ \A it \in turns_container :
          /\ Alternates(it.Prompt)
          /\ it.Prompt[Len(it.Prompt)].role = "assistant"

\* C26 as claimed: the move stored for a turn RESOLVED without fallback is
\* the candidate descriptor of the final completion, for every kind of move,
\* a Marriage named by either of its cards included.
C26_StoredMoveIsCandidate ==
    (pc = "game" /\ played # <<>> /\ outcome = "RESOLVED") =>
        \A it \in LastRecord : it.Move = llm_move_text

\* C26: the move stored for a turn RESOLVED without fallback has the kind and
\* the suit of the candidate descriptor of the final completion, and its
\* rank, except that a Marriage is stored under its queen whichever of its
\* two cards the candidate named.
C26_StoredMoveIsFirstCard ==
    (pc = "game" /\ played # <<>> /\ outcome = "RESOLVED") =>
        /\ LastRecord # {}
        /\ \A it \in LastRecord :
              /\ it.Move.type = llm_move_text.type
              /\ it.Move.suit = llm_move_text.suit
              /\ it.Move.rank = IF llm_move_text.type = "Marriage"
                                THEN "QUEEN" ELSE llm_move_text.rank

C26_Witness ==
    /\ pc = "game"
    /\ played # <<>>
    /\ outcome = "RESOLVED"
    /\ llm_move_text = CardMove("KING", "SPADES", "Marriage")
    /\ \E it \in LastRecord : it.Move = CardMove("QUEEN", "SPADES", "Marriage")

\* C27: completion_latencies grows by one entry per successful
\* chat_completion call and by nothing else, so when notify_game_end writes
\* the summary its length is the number of provider round-trips of the match:
\* one per candidate of the turns played, i.e. per assistant entry of the
\* transcript of the match.
C27_LatenciesOfTheMatch ==
    [][ /\ completion_times' # completion_times =>
              \/ /\ pc = "completion" /\ pc' = "normalize"
                 /\ Len(completion_times') = Len(completion_times) + 1
                 /\ SubSeq(completion_times', 1, Len(completion_times)) = completion_times
              \/ /\ pc = "game" /\ pc' = "loop" /\ completion_times' = <<>>
        /\ matches_stats' # matches_stats =>
              \A it \in LastRecord : Len(completion_times) = Count(it.Prompt, "move")
      ]_vars

\* C28: two runs of main started with the same --seed deal every match alike:
\* match i has the same two hands and the same talon in both runs, whatever
\* the clock showed when the matches began.
C28_DealsReproducible ==
    \A r1 \in DOMAIN runs, r2 \in DOMAIN runs :
        \A i \in 1..MaxRounds :
            ( /\ runs[r1].seed = runs[r2].seed
              /\ i <= Len(runs[r1].deals)
              /\ i <= Len(runs[r2].deals) )
            => Hands(runs[r1].deals[i]) = Hands(runs[r2].deals[i])

====
